---- MODULE Spec2Model ----
(***************************************************************************)
(* Visual identity resolution of bardy18/abi-market-data.                  *)
(*                                                                         *)
(*   - the batch reconciler  src/collector/cleanup_thumbs.py               *)
(*   - the per-card resolver src/collector/main.py (continuous_capture)    *)
(*   - the comparison helpers src/collector/utils.py                       *)
(*                                                                         *)
(* A hex string is a sequence of characters; a character is a number:      *)
(* 0..15 are the hex digits '0'..'f' (their value and their ASCII order    *)
(* agree for lowercase hex), 16 is a letter past 'f' that int(., 16)       *)
(* rejects.  A file of the thumbs directory is named <stem>.png; the model *)
(* keeps the stem and leaves the ".png" implicit.                          *)
(***************************************************************************)
EXTENDS Integers, Sequences, FiniteSets, TLC

VARIABLES
    thumbs,          \* the thumbs directory, in listing order: <<[stem, mtime, look]>>
    snapshots,       \* the snapshot files: <<[ok, data]>>
    runs,            \* reconciler runs made so far
    last,            \* what the last reconciler run saw and reported
    prev,            \* the run before it: [apply, threshold]
    collected_items, \* the session index, in insertion order: <<[key, price, ...]>>
    clock,           \* time.time(), in whole seconds
    log,             \* the cards resolved in this session, with what was decided
    exit_code,       \* the exit status of the last reconciler run
    phase,           \* where continuous_capture is: "loop" or "exited"
    ended_by,        \* the key that broke the loop of this session
    snapshot_names,  \* the file names of snapshots, in the same order
    session,         \* capture sessions started so far
    call,            \* the last call of a helper function, with its result
    loop             \* the local variables of the capture loop, and its trace

vars == <<thumbs, snapshots, runs, last, prev, collected_items, clock, log,
          exit_code, phase, ended_by, snapshot_names, session, call, loop>>

reconcilerVars == <<runs, last, prev, exit_code>>

captureVars == <<collected_items, clock, log>>

sessionVars == <<phase, ended_by, snapshot_names, session>>

helperVars == <<call>>

loopVars == <<loop>>

(***************************************************************************)
(* Bounds of the model.                                                    *)
(***************************************************************************)
MaxFiles == 3
MaxRuns == 2
MaxCards == 3
MaxSessions == 2
MaxMinutes == 2

(***************************************************************************)
(* Hex strings.                                                            *)
(***************************************************************************)
NonHex == 16

Min(a, b) == IF a <= b THEN a ELSE b

Abs(x) == IF x < 0 THEN -x ELSE x

Bit(x, i) == (x \div (2 ^ i)) % 2

\* bin(x ^ y).count("1") for two hex digits
PopXorDigit(x, y) ==
    Cardinality({i \in 0..3 : Bit(x, i) # Bit(y, i)})

PopXorTable == [x \in 0..15 |-> [y \in 0..15 |-> PopXorDigit(x, y)]]

\* int(s[:n], 16) succeeds: the n characters are hex digits, and there is one
IsHex(s, n) == n > 0 /\ \A i \in 1..n : s[i] \in 0..15

\* bin(int(a[:n],16) ^ int(b[:n],16)).count("1"): the XOR of the two numbers
\* is the digit-wise XOR of their digits
RECURSIVE PopXor(_, _, _, _)
PopXor(a, b, i, n) ==
    IF i > n THEN 0
    ELSE PopXorTable[a[i]][b[i]] + PopXor(a, b, i + 1, n)

\* cleanup_thumbs.hamming_distance_hex: 64 stands for "not comparable"
cleanup_hamming_distance_hex(a, b) ==
    LET n == Min(Len(a), Len(b)) IN
    IF n = 0 THEN 64
    ELSE IF ~IsHex(a, n) \/ ~IsHex(b, n) THEN 64
    ELSE PopXor(a, b, 1, n)

\* a < b as file names "<a>.png" < "<b>.png": character by character; a
\* proper prefix sorts first because '.' sorts before every digit and letter
RECURSIVE NameLess(_, _, _)
NameLess(a, b, i) ==
    IF i > Len(a) THEN i <= Len(b)
    ELSE IF i > Len(b) THEN FALSE
    ELSE IF a[i] # b[i] THEN a[i] < b[i]
    ELSE NameLess(a, b, i + 1)

\* f"{v:0<n>x}" of the number whose top `bits` bits are set, n digits wide
RECURSIVE HexOfBits(_, _)
HexOfBits(bits, n) ==
    IF n = 0 THEN <<>>
    ELSE IF bits >= 4 THEN <<15>> \o HexOfBits(bits - 4, n - 1)
    ELSE <<CASE bits = 0 -> 0 [] bits = 1 -> 8 [] bits = 2 -> 12 [] OTHER -> 14>>
         \o HexOfBits(0, n - 1)

\* f"{b:x}", without the padding to two digits
Hex2_NoPad(b) == IF b < 16 THEN <<b>> ELSE <<b \div 16, b % 16>>

\* f"{b:02x}" of a byte
Hex2(b) == <<b \div 16, b % 16>>

\* a 38-character composite fingerprint: aHash, dHash, H, S, V
Composite(a, d, h, s, v) ==
    HexOfBits(a, 16) \o HexOfBits(d, 16) \o Hex2(h) \o Hex2(s) \o Hex2(v)

(***************************************************************************)
(* Snapshot files.  json.loads gives the data of a file that parses, and   *)
(* json.dumps writes data back as a file that parses; an item is           *)
(* [itemName, price, thumbHash, thumbPath], where thumbHash = <<>> and      *)
(* thumbPath.pre = "" stand for a key that is absent (or empty).           *)
(***************************************************************************)
NoPath == [pre |-> "", fname |-> <<>>]

ThumbsPath(pre, stem) == [pre |-> pre, fname |-> stem]

Item(name, price, hash, path) ==
    [itemName |-> name, price |-> price, thumbHash |-> hash, thumbPath |-> path]

json_loads(file) == file.data

json_dumps(data) == [ok |-> TRUE, data |-> data]

\* rel.replace("\\", "/")
NormalizeSeparators(pre) == IF pre = "thumbs\\" THEN "thumbs/" ELSE pre

(***************************************************************************)
(* cleanup_thumbs.py                                                       *)
(***************************************************************************)
Stems(files) == {files[i].stem : i \in 1..Len(files)}

\* sorted(files): ascending by file name
RECURSIVE SortByName(_)
SortByName(S) ==
    IF S = {} THEN <<>>
    ELSE LET m == CHOOSE x \in S :
                     \A y \in S \ {x} : NameLess(x.stem, y.stem, 1)
         IN <<m>> \o SortByName(S \ {m})

\* files = sorted([p for p in thumbs_dir.glob("*.png") if p.is_file()])
ListFiles(dir) == SortByName({dir[i] : i \in 1..Len(dir)})

\* the inner loop of group_similar_hashes: index of the first representative
\* within threshold_bits of stem, 0 when there is none
RECURSIVE FirstRep(_, _, _, _)
FirstRep(reps, stem, threshold_bits, i) ==
    IF i > Len(reps) THEN 0
    ELSE IF cleanup_hamming_distance_hex(stem, reps[i]) <= threshold_bits THEN i
    ELSE FirstRep(reps, stem, threshold_bits, i + 1)

\* grouping that compares a file with the last member of each group
RECURSIVE GroupFrom_Chained(_, _, _, _, _)
GroupFrom_Chained(files, threshold_bits, k, groups, reps) ==
    IF k > Len(files) THEN groups
    ELSE LET f == files[k]
             i == FirstRep(reps, f.stem, threshold_bits, 1)
         IN IF i # 0
            THEN GroupFrom_Chained(files, threshold_bits, k + 1,
                                   [groups EXCEPT ![i] = Append(@, f)],
                                   [reps EXCEPT ![i] = f.stem])
            ELSE GroupFrom_Chained(files, threshold_bits, k + 1,
                                   Append(groups, <<f>>), Append(reps, f.stem))

\* the outer loop of group_similar_hashes, from file k on
RECURSIVE GroupFrom(_, _, _, _, _)
GroupFrom(files, threshold_bits, k, groups, reps) ==
    IF k > Len(files) THEN groups
    ELSE LET f == files[k]
             i == FirstRep(reps, f.stem, threshold_bits, 1)
         IN IF i # 0
            THEN GroupFrom(files, threshold_bits, k + 1,
                           [groups EXCEPT ![i] = Append(@, f)], reps)
            ELSE GroupFrom(files, threshold_bits, k + 1,
                           Append(groups, <<f>>), Append(reps, f.stem))

group_similar_hashes(files, threshold_bits) ==
    GroupFrom(files, threshold_bits, 1, <<>>, <<>>)

\* choose_canonical with an unstable sort: the last member with the least mtime
choose_canonical_LastOldest(file_group) ==
    LET least == CHOOSE m \in {file_group[i].mtime : i \in 1..Len(file_group)} :
                     \A i \in 1..Len(file_group) : m <= file_group[i].mtime
        lastOne == CHOOSE i \in 1..Len(file_group) :
                     /\ file_group[i].mtime = least
                     /\ \A j \in (i + 1)..Len(file_group) : file_group[j].mtime # least
    IN file_group[lastOne]

\* sorted(file_group, key=mtime)[0]: the sort is stable, so the first member
\* with the least mtime
choose_canonical(file_group) ==
    LET least == CHOOSE m \in {file_group[i].mtime : i \in 1..Len(file_group)} :
                     \A i \in 1..Len(file_group) : m <= file_group[i].mtime
        first == CHOOSE i \in 1..Len(file_group) :
                     /\ file_group[i].mtime = least
                     /\ \A j \in 1..(i - 1) : file_group[j].mtime # least
    IN file_group[first]

\* the canonical of a group as main takes it (a singleton is its own)
CanonicalOf(group) ==
    IF Len(group) = 1 THEN group[1] ELSE choose_canonical(group)

\* mapping: old file name -> canonical file name
BuildMapping(groups) ==
    LET where(stem) == CHOOSE g \in 1..Len(groups) : stem \in Stems(groups[g])
        all == UNION {Stems(groups[g]) : g \in 1..Len(groups)}
    IN [stem \in all |-> CanonicalOf(groups[where(stem)]).stem]

\* to_delete that keeps each group's first member instead of its canonical
BuildToDelete_KeepFirst(groups) ==
    UNION {{groups[g][i] : i \in 2..Len(groups[g])} : g \in 1..Len(groups)}

\* to_delete: the non-canonical members of the groups with several members
BuildToDelete(groups) ==
    UNION {{groups[g][i] : i \in 1..Len(groups[g])} \ {CanonicalOf(groups[g])} :
           g \in 1..Len(groups)}

\* the body of update_snapshots' innermost loop, for one item
UpdateItem(item, mapping) ==
    LET rel == item.thumbPath
        rel_norm == NormalizeSeparators(rel.pre)
        fname == rel.fname
    IN IF rel.pre = "" THEN item
       ELSE IF rel_norm = "thumbs/"
               /\ fname \in DOMAIN mapping /\ mapping[fname] # fname
            THEN [item EXCEPT !.thumbPath = ThumbsPath("thumbs/", mapping[fname])]
            ELSE item

\* update that writes back only the items that carry a thumbPath
UpdateCategory_DropUnreferenced(c, mapping) ==
    [c EXCEPT !.items =
        LET kept == SelectSeq(c.items, LAMBDA it : it.thumbPath.pre # "")
        IN [i \in 1..Len(kept) |-> UpdateItem(kept[i], mapping)]]

UpdateCategory(c, mapping) ==
    [c EXCEPT !.items = [i \in 1..Len(c.items) |-> UpdateItem(c.items[i], mapping)]]

UpdateData(data, mapping) ==
    [data EXCEPT !.categories =
        [c \in 1..Len(data.categories) |-> UpdateCategory(data.categories[c], mapping)]]

\* update that writes the file back whether or not --apply is given
UpdateSnapshot_AlwaysWrite(snap, mapping, apply) ==
    IF ~snap.ok THEN snap
    ELSE LET data == json_loads(snap)
             after == UpdateData(data, mapping)
         IN IF after # data THEN json_dumps(after) ELSE snap

\* one snapshot file of update_snapshots: the file afterwards
UpdateSnapshot(snap, mapping, apply) ==
    IF ~snap.ok THEN snap
    ELSE LET data == json_loads(snap)
             after == UpdateData(data, mapping)
         IN IF after # data /\ apply THEN json_dumps(after) ELSE snap

\* whether update_snapshots counts the file as changed
SnapshotModified(snap, mapping) ==
    snap.ok /\ UpdateData(json_loads(snap), mapping) # json_loads(snap)

update_snapshots(snaps, mapping, apply) ==
    [changed |-> Cardinality({i \in 1..Len(snaps) : SnapshotModified(snaps[i], mapping)}),
     snaps |-> [i \in 1..Len(snaps) |-> UpdateSnapshot(snaps[i], mapping, apply)]]

\* f.unlink() for every f of to_delete, when --apply is given
DeleteDuplicates(dir, to_delete, apply) ==
    IF apply /\ to_delete # {}
    THEN SelectSeq(dir, LAMBDA f : f \notin to_delete)
    ELSE dir

\* what one run reports and remembers
RunRecord(t, apply, files, groups, mapping, to_delete, changed, dir, snaps) ==
    [apply |-> apply, threshold |-> t, files |-> files, groups |-> groups,
     mapping |-> mapping, to_delete |-> to_delete,
     merged |-> Cardinality({k \in DOMAIN mapping : mapping[k] # k}),
     changed |-> changed,
     deleted |-> IF apply THEN Cardinality(to_delete) ELSE 0,
     thumbsBefore |-> dir, snapsBefore |-> snaps]

\* a snapshot file cut short by a write that failed
Truncated == [ok |-> FALSE, data |-> <<>>]

\* what a write_text that raises can leave of the snapshot files: the write
\* is that of the first modified file, which is untouched when the file
\* cannot be opened and cut short when the failure comes later
FailedWrite(snaps, mapping) ==
    LET k == CHOOSE i \in 1..Len(snaps) :
                 /\ SnapshotModified(snaps[i], mapping)
                 /\ \A h \in 1..(i - 1) : ~SnapshotModified(snaps[h], mapping)
    IN {snaps, [snaps EXCEPT ![k] = Truncated]}

\* main(): one run of the tool with --threshold t and --apply or not.
\* dir_exists: the thumbs directory is there; stat_ok, write_ok, unlink_ok:
\* p.stat(), snap.write_text() and f.unlink() succeed, should the run come to
\* call them.  An exception that nothing catches ends the run with status 1.
RunMain(t, apply, dir_exists, stat_ok, write_ok, unlink_ok) ==
    /\ runs < MaxRuns
    /\ ~dir_exists => Len(thumbs) = 0
    /\ \E files \in {ListFiles(thumbs)} :
         IF Len(files) = 0
         THEN /\ UNCHANGED <<thumbs, snapshots>>
              /\ last' = RunRecord(t, apply, files, <<>>, <<>>, {}, 0,
                                   thumbs, snapshots)
              /\ exit_code' = 0
         ELSE \E groups \in {group_similar_hashes(files, t)} :
              IF ~stat_ok /\ \E g \in 1..Len(groups) : Len(groups[g]) > 1
              THEN /\ UNCHANGED <<thumbs, snapshots>>
                   /\ last' = RunRecord(t, apply, files, groups, <<>>, {}, 0,
                                        thumbs, snapshots)
                   /\ exit_code' = 1
              ELSE
              \E mapping \in {BuildMapping(groups)} :
              \E to_delete \in {BuildToDelete(groups)} :
              \E upd \in {update_snapshots(snapshots, mapping, apply)} :
                IF apply /\ ~write_ok /\ upd.changed > 0
                THEN /\ snapshots' \in FailedWrite(snapshots, mapping)
                     /\ UNCHANGED thumbs
                     /\ last' = RunRecord(t, apply, files, groups, mapping, {},
                                          0, thumbs, snapshots)
                     /\ exit_code' = 1
                ELSE /\ snapshots' = upd.snaps
                     /\ thumbs' = IF unlink_ok
                                  THEN DeleteDuplicates(thumbs, to_delete, apply)
                                  ELSE thumbs
                     /\ last' = RunRecord(t, apply, files, groups, mapping,
                                          to_delete, upd.changed, thumbs, snapshots)
                     /\ exit_code' = 0
    /\ prev' = [apply |-> last.apply, threshold |-> last.threshold]
    /\ runs' = runs + 1
    /\ UNCHANGED <<captureVars, sessionVars, helperVars, loopVars>>

\* one run on a file system that does what it is asked
Reconcile(t, apply) == RunMain(t, apply, TRUE, TRUE, TRUE, TRUE)

\* parser.add_argument("--threshold", type=int, default=8)
DefaultThreshold == 8

Thresholds == {0, DefaultThreshold}

ReconcileDryRun == \E t \in Thresholds : Reconcile(t, FALSE)

ReconcileApply == \E t \in Thresholds : Reconcile(t, TRUE)

(***************************************************************************)
(* The corpora the reconciler is run on.                                   *)
(***************************************************************************)
\* two shapes 8 bits apart and a third one bit further
P0 == Composite(0, 0, 16, 64, 128)
P8 == Composite(8, 0, 16, 64, 128)
P9 == Composite(9, 0, 16, 64, 128)
\* the shape of P0 in another colour
P0Red == Composite(0, 0, 48, 64, 128)
\* a 16-character hash of an older collector, and a name that is no hex
Legacy == HexOfBits(0, 16)
Odd == <<1, NonHex, 2>>

StemPool == {P0, P8, P9, P0Red, Legacy, Odd}

MTimes == {1, 2}

SnapA ==
    json_dumps([timestamp |-> 1700000000,
                categories |-> <<[cat |-> "Helmet",
                                  items |-> <<Item("Aviator Helmet", 15000, P0, NoPath),
                                              Item("Cap", 300, P8, NoPath)>>]>>])

SnapB ==
    json_dumps([timestamp |-> 1700000060,
                categories |-> <<[cat |-> "Helmet",
                                  items |-> <<Item("Aviator Helmet", 15500, <<>>,
                                                   ThumbsPath("thumbs/", P0))>>],
                                 [cat |-> "Armor",
                                  items |-> <<Item("VestX", 200, <<>>,
                                                   ThumbsPath("thumbs\\", P8)),
                                              Item("Plate", 900, <<>>,
                                                   ThumbsPath("img/", P0)),
                                              Item("Rig", 50, <<>>, NoPath)>>]>>])

SnapBroken == [ok |-> FALSE, data |-> <<>>]

\* no helper has been called
NoCall == [fn |-> "none"]

\* the loop of continuous_capture as it is entered: paused, no click pending.
\* clicked and armed tell in which mode the click behind
\* mouse_capture_requested and behind should_capture was made, pass_after the
\* mode of the click that the last capture pass answered.
NoLoop ==
    [capturing |-> FALSE, mouse_capture_requested |-> FALSE,
     should_capture |-> FALSE, clicked |-> "none", armed |-> "none",
     pass_after |-> "none", passes |-> 0]

NoRun == [apply |-> FALSE, threshold |-> 0, files |-> <<>>, groups |-> <<>>,
          mapping |-> <<>>, to_delete |-> {}, merged |-> 0, changed |-> 0,
          deleted |-> 0, thumbsBefore |-> <<>>, snapsBefore |-> <<>>]

\* the listing of a set of files: os.listdir and glob promise no order, the
\* model lists by name, ascending or descending
Listing(S, descending) ==
    LET up == SortByName(S)
    IN IF descending THEN [i \in 1..Len(up) |-> up[Len(up) + 1 - i]] ELSE up

\* a directory of up to MaxFiles files with distinct names
Corpora ==
    {Listing(S, descending) :
        S \in {T \in SUBSET [stem : StemPool, mtime : MTimes, look : {0}] :
                  /\ Cardinality(T) <= MaxFiles
                  /\ \A f, g \in T : f.stem = g.stem => f = g},
        descending \in BOOLEAN}

SnapshotDirs == {<<>>, <<SnapB>>, <<SnapA, SnapBroken, SnapB>>}

InitReconcile ==
    /\ thumbs \in Corpora
    /\ snapshots \in SnapshotDirs
    /\ runs = 0
    /\ last = NoRun
    /\ prev = [apply |-> FALSE, threshold |-> 0]
    /\ collected_items = <<>>
    /\ clock = 3
    /\ log = <<>>
    /\ exit_code = 0
    /\ phase = "loop"
    /\ ended_by = "none"
    /\ snapshot_names = [i \in 1..Len(snapshots) |-> i]
    /\ session = 1
    /\ call = NoCall
    /\ loop = NoLoop

NextReconcile == ReconcileDryRun \/ ReconcileApply

ReconcileSpec == InitReconcile /\ [][NextReconcile]_vars

(***************************************************************************)
(* collector/utils.py: the comparisons the resolver uses.                  *)
(***************************************************************************)
\* what hamming_distance_hex returns for None
NoneDist == -1

\* a distance that treats a prefix that is no hex as equal strings
hamming_distance_hex_ZeroOnError(a, b) ==
    IF Len(a) = 0 \/ Len(b) = 0 THEN NoneDist
    ELSE LET n == Min(Len(a), Len(b)) IN
         IF ~IsHex(a, n) \/ ~IsHex(b, n) THEN 0
         ELSE PopXor(a, b, 1, n)

\* a distance that parses all of its first argument
hamming_distance_hex_WholeFirst(a, b) ==
    IF Len(a) = 0 \/ Len(b) = 0 THEN NoneDist
    ELSE LET n == Min(Len(a), Len(b)) IN
         IF ~IsHex(a, Len(a)) \/ ~IsHex(b, n) THEN NoneDist
         ELSE PopXor(a, b, 1, n)

\* utils.hamming_distance_hex
hamming_distance_hex(a, b) ==
    IF Len(a) = 0 \/ Len(b) = 0 THEN NoneDist
    ELSE LET n == Min(Len(a), Len(b)) IN
         IF ~IsHex(a, n) \/ ~IsHex(b, n) THEN NoneDist
         ELSE PopXor(a, b, 1, n)

HueBins == 12

\* a distance between hue bins that does not wrap around
hue_bin_distance_Linear(a, b) == Abs((a % HueBins) - (b % HueBins))

\* utils.hue_bin_distance
hue_bin_distance(a, b) ==
    LET d == Abs((a % HueBins) - (b % HueBins))
    IN Min(d, HueBins - d)

\* An icon image, as far as the resolver looks at it: the bits set in its
\* average hash and its gradient hash, its mean H, S, V bytes, the hue bin of
\* its colour signature and its pixels (look); look 0 is an image that
\* cannot be read.
Image(a, d, h, s, v, bin, look) ==
    [empty |-> FALSE, a |-> a, d |-> d, h |-> h, s |-> s, v |-> v,
     bin |-> bin, look |-> look]

EmptyImage ==
    [empty |-> TRUE, a |-> 0, d |-> 0, h |-> 0, s |-> 0, v |-> 0,
     bin |-> 0, look |-> 0]

\* utils.compute_thumbnail_hash
compute_thumbnail_hash(img) ==
    IF img.empty THEN <<>>
    ELSE Composite(img.a, img.d, img.h, img.s, img.v)

\* utils.compute_color_signature(img)["h_bin"]
compute_color_signature(img) == [h_bin |-> IF img.empty THEN 0 ELSE img.bin]

\* utils.are_images_similar on the pixels of two images: looks one apart
\* pass the three RMSE gates, an unreadable image passes none
are_images_similar(look_a, look_b) ==
    look_a # 0 /\ look_b # 0 /\ Abs(look_a - look_b) <= 1

(***************************************************************************)
(* collector/main.py: what continuous_capture does with one card.          *)
(***************************************************************************)
CompositeLen == 22
ReuseBits == 4
ReuseHueTol == 15
ReuseSatTol == 40
VisualBits == 12
VisualHueTol == 25
VisualSatTol == 60
MaxVisualCandidates == 40
KeyBits == 8
Colon == 58
Hashmark == 35

Last6(s) == SubSeq(s, Len(s) - 5, Len(s))

\* int(s[i:i+2], 16)
HexByte(s, i) == 16 * s[i] + s[i + 1]

\* hsv_ok with the tolerances of the second pass in both passes
HsvOk_Loose(thumb_hash, stem, hue_tol, sat_tol) ==
    IF Len(thumb_hash) >= CompositeLen /\ Len(stem) >= CompositeLen
    THEN LET hsv_a == Last6(thumb_hash)
             hsv_b == Last6(stem)
         IN IF IsHex(hsv_a, 6) /\ IsHex(hsv_b, 6)
            THEN /\ Abs(HexByte(hsv_a, 1) - HexByte(hsv_b, 1)) <= VisualHueTol
                 /\ Abs(HexByte(hsv_a, 3) - HexByte(hsv_b, 3)) <= VisualSatTol
            ELSE TRUE
    ELSE TRUE

\* hsv_ok of both passes: checked only when both strings are composite; a
\* suffix that does not parse leaves hsv_ok True
HsvOk(thumb_hash, stem, hue_tol, sat_tol) ==
    IF Len(thumb_hash) >= CompositeLen /\ Len(stem) >= CompositeLen
    THEN LET hsv_a == Last6(thumb_hash)
             hsv_b == Last6(stem)
         IN IF IsHex(hsv_a, 6) /\ IsHex(hsv_b, 6)
            THEN /\ Abs(HexByte(hsv_a, 1) - HexByte(hsv_b, 1)) <= hue_tol
                 /\ Abs(HexByte(hsv_a, 3) - HexByte(hsv_b, 3)) <= sat_tol
            ELSE TRUE
    ELSE TRUE

\* first pass: index of the first listed file whose stem is reused, 0 if none
RECURSIVE FilenameReuse(_, _, _)
FilenameReuse(thumb_hash, existing_files, i) ==
    IF i > Len(existing_files) THEN 0
    ELSE LET stem == existing_files[i].stem
             dist == hamming_distance_hex(thumb_hash, stem)
         IN IF /\ dist # NoneDist
               /\ dist <= ReuseBits
               /\ HsvOk(thumb_hash, stem, ReuseHueTol, ReuseSatTol)
            THEN i
            ELSE FilenameReuse(thumb_hash, existing_files, i + 1)

\* second pass: the candidates, in listing order
VisualCandidates(thumb_hash, existing_files) ==
    SelectSeq(existing_files,
              LAMBDA f : LET dist == hamming_distance_hex(thumb_hash, f.stem)
                         IN /\ dist # NoneDist
                            /\ dist <= VisualBits
                            /\ HsvOk(thumb_hash, f.stem, VisualHueTol, VisualSatTol))

\* the second pass looking at every candidate, however many there are
RECURSIVE FirstSimilar_NoLimit(_, _, _)
FirstSimilar_NoLimit(img, candidates, i) ==
    IF i > Len(candidates) THEN 0
    ELSE IF are_images_similar(img.look, candidates[i].look) THEN i
    ELSE FirstSimilar_NoLimit(img, candidates, i + 1)

\* second pass: index of the first of candidates[:40] that looks like the
\* icon, 0 if none
RECURSIVE FirstSimilar(_, _, _)
FirstSimilar(img, candidates, i) ==
    IF i > Min(Len(candidates), MaxVisualCandidates) THEN 0
    ELSE IF are_images_similar(img.look, candidates[i].look) THEN i
    ELSE FirstSimilar(img, candidates, i + 1)

\* chosen_hash, the pass that set it and the file the first pass stopped at
ChooseHash(img, thumb_hash, existing_files) ==
    LET first == FilenameReuse(thumb_hash, existing_files, 1)
        chosen_hash == IF first = 0 THEN thumb_hash ELSE existing_files[first].stem
        candidates == VisualCandidates(thumb_hash, existing_files)
        second == IF chosen_hash = thumb_hash /\ Len(existing_files) > 0
                  THEN FirstSimilar(img, candidates, 1)
                  ELSE 0
    IN IF second # 0
       THEN [hash |-> candidates[second].stem, tier |-> "visual", first |-> first]
       ELSE IF first # 0
       THEN [hash |-> chosen_hash, tier |-> "reuse", first |-> first]
       ELSE [hash |-> thumb_hash, tier |-> "new", first |-> first]

\* a write that does not look whether the file exists
WriteThumb_Overwrite(dir, chosen_hash, img, now) ==
    IF \E i \in 1..Len(dir) : dir[i].stem = chosen_hash
    THEN [i \in 1..Len(dir) |->
             IF dir[i].stem = chosen_hash
             THEN [stem |-> chosen_hash, mtime |-> now, look |-> img.look]
             ELSE dir[i]]
    ELSE Append(dir, [stem |-> chosen_hash, mtime |-> now, look |-> img.look])

\* if not os.path.exists(out_full): cv2.imwrite(out_full, resized)
WriteThumb(dir, chosen_hash, img, now) ==
    IF \E i \in 1..Len(dir) : dir[i].stem = chosen_hash THEN dir
    ELSE Append(dir, [stem |-> chosen_hash, mtime |-> now, look |-> img.look])

\* k.startswith(base_prefix)
StartsWith(k, base_prefix) ==
    /\ Len(k) >= Len(base_prefix)
    /\ SubSeq(k, 1, Len(base_prefix)) = base_prefix

BasePrefix(category, clean_name) == category \o <<Colon>> \o clean_name

\* candidates = [k for k in collected_items.keys() if k.startswith(base_prefix)]
KeyCandidates(items, base_prefix) ==
    SelectSeq(items, LAMBDA e : StartsWith(e.key, base_prefix))

\* the test without the comparison of the hue bins
Accepts_NoHueCheck(entry, price, thumb_hash_final, src_bin) ==
    LET same_price == entry.price = price
        dist == IF Len(thumb_hash_final) > 0 /\ Len(entry.thumbHash) > 0
                THEN hamming_distance_hex(thumb_hash_final, entry.thumbHash)
                ELSE NoneDist
    IN same_price \/ (dist # NoneDist /\ dist <= KeyBits)

\* the test of the disambiguation loop for one candidate entry
Accepts(entry, price, thumb_hash_final, src_bin) ==
    LET same_price == entry.price = price
        dist == IF Len(thumb_hash_final) > 0 /\ Len(entry.thumbHash) > 0
                THEN hamming_distance_hex(thumb_hash_final, entry.thumbHash)
                ELSE NoneDist
        hue_ok == hue_bin_distance(src_bin, entry.colorSig.h_bin) <= 1
    IN same_price \/ (dist # NoneDist /\ dist <= KeyBits /\ hue_ok)

RECURSIVE FirstAccepted(_, _, _, _, _)
FirstAccepted(candidates, price, thumb_hash_final, src_bin, i) ==
    IF i > Len(candidates) THEN 0
    ELSE IF Accepts(candidates[i], price, thumb_hash_final, src_bin) THEN i
    ELSE FirstAccepted(candidates, price, thumb_hash_final, src_bin, i + 1)

\* f"{int(time.time()) & 0xFFFFFF:06x}"
TimeSuffix(now) ==
    LET v == now % (2 ^ 24)
    IN [i \in 1..6 |-> (v \div (16 ^ (6 - i))) % 16]

\* whether the key is minted with the time suffix
MintsTimeSuffix(items, base_prefix, price, thumb_hash_final, src_bin) ==
    LET candidates == KeyCandidates(items, base_prefix)
    IN /\ Len(candidates) > 0
       /\ FirstAccepted(candidates, price, thumb_hash_final, src_bin, 1) = 0
       /\ Len(thumb_hash_final) = 0

\* item_key without the fallback to the time when there is no hash
ItemKey_NoTimeFallback(items, base_prefix, price, thumb_hash_final, src_bin, now) ==
    LET candidates == KeyCandidates(items, base_prefix)
        chosen == FirstAccepted(candidates, price, thumb_hash_final, src_bin, 1)
    IN IF Len(candidates) = 0 THEN base_prefix
       ELSE IF chosen # 0 THEN candidates[chosen].key
       ELSE base_prefix \o <<Hashmark>> \o thumb_hash_final

\* item_key
ItemKey(items, base_prefix, price, thumb_hash_final, src_bin, now) ==
    LET candidates == KeyCandidates(items, base_prefix)
        chosen == FirstAccepted(candidates, price, thumb_hash_final, src_bin, 1)
    IN IF Len(candidates) = 0 THEN base_prefix
       ELSE IF chosen # 0 THEN candidates[chosen].key
       ELSE base_prefix \o <<Hashmark>>
            \o (IF Len(thumb_hash_final) > 0 THEN thumb_hash_final
                ELSE TimeSuffix(now))

\* collected_items[item_key] = {...}, only when the key is new
AddItem(items, item_key, clean_name, category, price, thumb_hash_final, sig) ==
    IF \E i \in 1..Len(items) : items[i].key = item_key THEN items
    ELSE Append(items, [key |-> item_key, ocrName |-> clean_name, price |-> price,
                        category |-> category, thumbHash |-> thumb_hash_final,
                        colorSig |-> sig])

\* the body of the loop over the cards of a capture, for one card with data.
\* Time is read for the fallback suffix only; where it is not read the model
\* lets no time pass.  listdir_ok and imwrite_ok tell whether os.listdir and
\* cv2.imwrite succeed, should the card come to call them: a listing that
\* raises leaves existing_files empty, a write that fails leaves no file.
ResolveCardIn(category, clean_name, price, img, listdir_ok, imwrite_ok) ==
    /\ phase = "loop"
    /\ Len(log) < MaxCards
    /\ \E thumb_hash \in {compute_thumbnail_hash(img)} :
       \E existing_files \in {IF listdir_ok THEN thumbs ELSE <<>>} :
       \E sel \in {IF ~img.empty /\ Len(thumb_hash) > 0
                   THEN ChooseHash(img, thumb_hash, existing_files)
                   ELSE [hash |-> thumb_hash, tier |-> "none", first |-> 0]} :
       \E base_prefix \in {BasePrefix(category, clean_name)} :
       \E sig \in {compute_color_signature(img)} :
       \E dt \in (IF MintsTimeSuffix(collected_items, base_prefix, price,
                                     sel.hash, sig.h_bin)
                  THEN {0, 1} ELSE {0}) :
       \E item_key \in {ItemKey(collected_items, base_prefix, price, sel.hash,
                                sig.h_bin, clock + dt)} :
       \E written \in {IF sel.tier = "none" \/ ~imwrite_ok THEN thumbs
                       ELSE WriteThumb(thumbs, sel.hash, img, clock + dt)} :
         /\ clock' = clock + dt
         /\ thumbs' = written
         /\ collected_items' = AddItem(collected_items, item_key, clean_name,
                                       category, price, sel.hash, sig)
         /\ log' = Append(log,
                [prefix |-> base_prefix, price |-> price, img |-> img,
                 fresh |-> thumb_hash, chosen |-> sel.hash, tier |-> sel.tier,
                 reuse |-> sel.first,
                 key |-> item_key,
                 ncand |-> Len(KeyCandidates(collected_items, base_prefix)),
                 is_new |-> \A i \in 1..Len(collected_items) :
                                collected_items[i].key # item_key,
                 listdir_failed |-> sel.tier # "none" /\ ~listdir_ok,
                 imwrite_failed |->
                     /\ sel.tier # "none" /\ ~imwrite_ok
                     /\ \A i \in 1..Len(thumbs) : thumbs[i].stem # sel.hash])
    /\ UNCHANGED <<snapshots, reconcilerVars, sessionVars, helperVars>>

\* one card of a capture whose loop variables are those of the pass under way
ResolveCardEnv(category, clean_name, price, img, listdir_ok, imwrite_ok) ==
    /\ ResolveCardIn(category, clean_name, price, img, listdir_ok, imwrite_ok)
    /\ UNCHANGED loopVars

\* one card, the directory being readable and writable
ResolveCard(category, clean_name, price, img) ==
    ResolveCardEnv(category, clean_name, price, img, TRUE, TRUE)

(***************************************************************************)
(* The cards of a capture session.                                         *)
(***************************************************************************)
CatArmor == <<65, 114, 109, 111, 114>>
NameVest == <<86, 101, 115, 116>>

\* one shape
ImgA == Image(0, 0, 16, 64, 128, 0, 1)
\* the same item captured again: three bits off, pixels close
ImgA3 == Image(3, 0, 16, 64, 128, 0, 2)
\* the shape of ImgA with another hue (16 bytes off, the next hue bin),
\* pixels close
ImgHue == Image(0, 0, 32, 64, 128, 1, 2)
\* the shape of ImgA in another colour (32 bytes off, two hue bins away)
ImgRed == Image(0, 0, 48, 64, 128, 2, 4)
\* the shape of ImgA, more saturated (48 bytes off), pixels the same
ImgSat == Image(0, 0, 16, 112, 128, 0, 1)
\* another shape
ImgFar == Image(20, 6, 16, 64, 128, 0, 9)

Images == {ImgA, ImgA3, ImgHue, ImgRed, ImgSat, ImgFar, EmptyImage}

Prices == {100, 200}

File(stem, mtime, look) == [stem |-> stem, mtime |-> mtime, look |-> look]

\* the thumbs directory a session starts with
StoredDirs ==
    {<<>>,
     <<File(P0, 1, 1)>>,
     <<File(Legacy, 1, 1), File(Odd, 1, 0), File(P0Red, 2, 4)>>}

Capture ==
    \E price \in Prices, img \in Images :
        ResolveCard(CatArmor, NameVest, price, img)

InitCapture ==
    /\ thumbs \in StoredDirs
    /\ snapshots = <<>>
    /\ runs = 0
    /\ last = NoRun
    /\ prev = [apply |-> FALSE, threshold |-> 0]
    /\ collected_items = <<>>
    /\ clock = 3
    /\ log = <<>>
    /\ exit_code = 0
    /\ phase = "loop"
    /\ ended_by = "none"
    /\ snapshot_names = [i \in 1..Len(snapshots) |-> i]
    /\ session = 1
    /\ call = NoCall
    /\ loop = NoLoop

NextCapture == Capture

CaptureSpec == InitCapture /\ [][NextCapture]_vars

(***************************************************************************)
(* Cards resolved against directories that earlier sessions left behind,   *)
(* listed in the order os.listdir happens to give.                         *)
(***************************************************************************)
A3 == Composite(3, 0, 16, 64, 128)

\* a second icon with the fingerprint of ImgA3, pixels a little different
ImgA3b == Image(3, 0, 16, 64, 128, 0, 3)

\* a file nine bits from P0 and six from A3, then A3, then P0 itself
NearbyDir == <<File(P9, 1, 4), File(A3, 2, 2), File(P0, 3, 9)>>

\* the k-th of a run of stems that differ from P0 by 16 and more in hue, by
\* a few in saturation, and by no more than seven bits
HueRun(k) == Composite(0, 0, 32 + (k % 8), 64 + (k \div 8), 128)

\* more candidates than the second pass looks at: only the last one stores
\* pixels like those of ImgA
CrowdedDir ==
    [k \in 1..(MaxVisualCandidates + 1) |->
        File(HueRun(k - 1), k, IF k > MaxVisualCandidates THEN 1 ELSE 9)]

TierDirs == {NearbyDir, CrowdedDir, <<File(P8, 1, 2)>>}

TierImages == {ImgA, ImgA3b, ImgHue, ImgFar}

TierCapture ==
    \E img \in TierImages : ResolveCard(CatArmor, NameVest, 100, img)

InitTier ==
    /\ thumbs \in TierDirs
    /\ snapshots = <<>>
    /\ runs = 0
    /\ last = NoRun
    /\ prev = [apply |-> FALSE, threshold |-> 0]
    /\ collected_items = <<>>
    /\ clock = 50
    /\ log = <<>>
    /\ exit_code = 0
    /\ phase = "loop"
    /\ ended_by = "none"
    /\ snapshot_names = <<>>
    /\ session = 1
    /\ call = NoCall
    /\ loop = NoLoop

NextTier == TierCapture

TierSpec == InitTier /\ [][NextTier]_vars

(***************************************************************************)
(* The reconciler on a file system that fails.                             *)
(***************************************************************************)
FaultCorpora ==
    {<<>>,
     <<File(P0, 1, 0)>>,
     <<File(P0, 2, 0), File(P8, 1, 0)>>}

ReconcileUnderFaults ==
    \E t \in Thresholds, apply \in BOOLEAN, dir_exists \in BOOLEAN,
       stat_ok \in BOOLEAN, write_ok \in BOOLEAN, unlink_ok \in BOOLEAN :
        RunMain(t, apply, dir_exists, stat_ok, write_ok, unlink_ok)

InitReconcileFault ==
    /\ thumbs \in FaultCorpora
    /\ snapshots \in SnapshotDirs
    /\ runs = 0
    /\ last = NoRun
    /\ prev = [apply |-> FALSE, threshold |-> 0]
    /\ collected_items = <<>>
    /\ clock = 3
    /\ log = <<>>
    /\ exit_code = 0
    /\ phase = "loop"
    /\ ended_by = "none"
    /\ snapshot_names = [i \in 1..Len(snapshots) |-> i]
    /\ session = 1
    /\ call = NoCall
    /\ loop = NoLoop

NextReconcileFault == ReconcileUnderFaults

ReconcileFaultSpec == InitReconcileFault /\ [][NextReconcileFault]_vars

(***************************************************************************)
(* Cards resolved while the thumbs directory misbehaves or holds files     *)
(* that the collector did not name.                                        *)
(***************************************************************************)
\* a copy of the file of P0Red, one letter appended to its name
P0RedCopy == P0Red \o <<NonHex>>

FaultDirs ==
    {<<File(P0, 1, 1)>>,
     <<File(Odd, 1, 0), File(P0RedCopy, 2, 4)>>}

FaultImages == {ImgA, ImgFar}

CaptureUnderFaults ==
    \E img \in FaultImages, listdir_ok \in BOOLEAN, imwrite_ok \in BOOLEAN :
        ResolveCardEnv(CatArmor, NameVest, 100, img, listdir_ok, imwrite_ok)

InitFault ==
    /\ thumbs \in FaultDirs
    /\ snapshots = <<>>
    /\ runs = 0
    /\ last = NoRun
    /\ prev = [apply |-> FALSE, threshold |-> 0]
    /\ collected_items = <<>>
    /\ clock = 3
    /\ log = <<>>
    /\ exit_code = 0
    /\ phase = "loop"
    /\ ended_by = "none"
    /\ snapshot_names = <<>>
    /\ session = 1
    /\ call = NoCall
    /\ loop = NoLoop

NextFault == CaptureUnderFaults

FaultSpec == InitFault /\ [][NextFault]_vars

(***************************************************************************)
(* collector/main.py: the end of a capture session.                        *)
(***************************************************************************)
\* s.find(ch), counted from 1; 0 when ch is not in s
RECURSIVE IndexOf(_, _, _)
IndexOf(s, ch, i) ==
    IF i > Len(s) THEN 0
    ELSE IF s[i] = ch THEN i
    ELSE IndexOf(s, ch, i + 1)

\* item_key.split(':', 1)[1] if ':' in item_key else item_key
AfterColon(item_key) ==
    LET c == IndexOf(item_key, Colon, 1)
    IN IF c = 0 THEN item_key ELSE SubSeq(item_key, c + 1, Len(item_key))

\* clean_part.split('#', 1)[0]
BeforeHash(clean_part) ==
    LET h == IndexOf(clean_part, Hashmark, 1)
    IN IF h = 0 THEN clean_part ELSE SubSeq(clean_part, 1, h - 1)

\* the entry of one collected item: thumbHash only when there is one
SnapshotEntry(e) == Item(BeforeHash(AfterColon(e.key)), e.price, e.thumbHash, NoPath)

\* categories[category].append(entry), the categories in order of first use
AppendEntry(cats, category, entry) ==
    IF \E c \in 1..Len(cats) : cats[c].cat = category
    THEN [c \in 1..Len(cats) |->
             IF cats[c].cat = category
             THEN [cats[c] EXCEPT !.items = Append(@, entry)]
             ELSE cats[c]]
    ELSE Append(cats, [cat |-> category, items |-> <<entry>>])

RECURSIVE GroupByCategory(_, _)
GroupByCategory(items, n) ==
    IF n = 0 THEN <<>>
    ELSE AppendEntry(GroupByCategory(items, n - 1), items[n].category,
                     SnapshotEntry(items[n]))

\* the snapshot of the session
BuildSnapshot(items, now) ==
    [timestamp |-> now, categories |-> GroupByCategory(items, Len(items))]

\* time.strftime('%Y-%m-%d_%H-%M.json'): the name is the minute
SnapshotName(now) == now \div 60

\* open(snapshot_path, 'w') and json.dump: a file of that name is replaced
WriteSnapshot(files, names, name, data) ==
    IF \E i \in 1..Len(names) : names[i] = name
    THEN [i \in 1..Len(files) |-> IF names[i] = name THEN json_dumps(data) ELSE files[i]]
    ELSE Append(files, json_dumps(data))

\* a key breaks the loop, the window is closed and the results are saved:
\* the code after the loop does not look at the key
EndSession(key) ==
    /\ phase = "loop"
    /\ phase' = "exited"
    /\ ended_by' = key
    /\ IF Len(collected_items) > 0
       THEN \E name \in {SnapshotName(clock)} :
            \E data \in {BuildSnapshot(collected_items, clock)} :
              /\ snapshots' = WriteSnapshot(snapshots, snapshot_names, name, data)
              /\ snapshot_names' =
                    IF \E i \in 1..Len(snapshot_names) : snapshot_names[i] = name
                    THEN snapshot_names
                    ELSE Append(snapshot_names, name)
       ELSE UNCHANGED <<snapshots, snapshot_names>>
    /\ UNCHANGED <<thumbs, reconcilerVars, captureVars, session, helperVars, loopVars>>

PressQ == EndSession("q")

PressEsc == EndSession("esc")

KeyboardInterrupt == EndSession("interrupt")

\* the program is started again
StartSession ==
    /\ phase = "exited"
    /\ session < MaxSessions
    /\ session' = session + 1
    /\ phase' = "loop"
    /\ ended_by' = "none"
    /\ collected_items' = <<>>
    /\ log' = <<>>
    /\ UNCHANGED <<thumbs, snapshots, snapshot_names, clock, reconcilerVars, helperVars, loopVars>>

\* a minute passes
Tick ==
    /\ SnapshotName(clock) < MaxMinutes
    /\ clock' = clock + 60
    /\ UNCHANGED <<thumbs, snapshots, reconcilerVars, collected_items, log,
                   sessionVars, helperVars, loopVars>>

SessionCapture ==
    \E price \in Prices : ResolveCard(CatArmor, NameVest, price, ImgA)

InitSession ==
    /\ thumbs = <<>>
    /\ snapshots = <<>>
    /\ runs = 0
    /\ last = NoRun
    /\ prev = [apply |-> FALSE, threshold |-> 0]
    /\ collected_items = <<>>
    /\ clock = 3
    /\ log = <<>>
    /\ exit_code = 0
    /\ phase = "loop"
    /\ ended_by = "none"
    /\ snapshot_names = <<>>
    /\ session = 1
    /\ call = NoCall
    /\ loop = NoLoop

NextSession ==
    \/ SessionCapture
    \/ PressQ
    \/ PressEsc
    \/ KeyboardInterrupt
    \/ StartSession
    \/ Tick

SessionSpec == InitSession /\ [][NextSession]_vars

(***************************************************************************)
(* collector/main.py: one iteration of the while loop of                   *)
(* continuous_capture.  cv2.waitKey dispatches the events of the window:   *)
(* a left click runs _on_mouse, SPACE comes back as the key.  An iteration *)
(* either shows a preview and continues, or runs a capture pass.           *)
(***************************************************************************)
Events == {"none", "click", "space"}

\* _on_mouse: a left button press sets the flag, in whichever mode
OnMouse(l, event) ==
    IF event = "click"
    THEN [l EXCEPT !.mouse_capture_requested = TRUE,
                   !.clicked = IF l.capturing THEN "capturing" ELSE "paused"]
    ELSE l

\* elif key == ord(' '): capturing = not capturing
OnKey(l, event) ==
    IF event = "space" THEN [l EXCEPT !.capturing = ~l.capturing] ELSE l

\* if mouse_capture_requested and capturing: should_capture = True; ... = False
TakeClick(l) ==
    IF l.mouse_capture_requested /\ l.capturing
    THEN [l EXCEPT !.should_capture = TRUE, !.mouse_capture_requested = FALSE,
                   !.armed = l.clicked, !.clicked = "none"]
    ELSE l

\* the loop variables where the iteration decides between preview and pass
AfterEvents(event) == TakeClick(OnKey(OnMouse(loop, event), event))

\* the three continue statements are passed: the screenshot was taken, the
\* session is capturing and a capture was triggered
ReachesPass(l, screenshot_ok) ==
    screenshot_ok /\ l.capturing /\ l.should_capture

\* an iteration that ends in one of the continue statements
LoopPreview(event, screenshot_ok) ==
    /\ phase = "loop"
    /\ \E l \in {AfterEvents(event)} :
         /\ ~ReachesPass(l, screenshot_ok)
         /\ loop' = l
    /\ UNCHANGED <<thumbs, snapshots, reconcilerVars, captureVars, sessionVars,
                   helperVars>>

\* an iteration that runs the capture pass, on a screen that shows one card
LoopCapture(event, price, img) ==
    /\ \E l \in {AfterEvents(event)} :
         /\ ReachesPass(l, TRUE)
         /\ loop' = [l EXCEPT !.should_capture = FALSE, !.armed = "none",
                              !.pass_after = l.armed,
                              !.passes = l.passes + 1]
    /\ ResolveCardIn(CatArmor, NameVest, price, img, TRUE, TRUE)

LoopIterate ==
    \/ \E event \in Events, screenshot_ok \in BOOLEAN :
           LoopPreview(event, screenshot_ok)
    \/ \E event \in Events, price \in Prices :
           LoopCapture(event, price, ImgA)

InitLoop ==
    /\ thumbs = <<>>
    /\ snapshots = <<>>
    /\ runs = 0
    /\ last = NoRun
    /\ prev = [apply |-> FALSE, threshold |-> 0]
    /\ collected_items = <<>>
    /\ clock = 3
    /\ log = <<>>
    /\ exit_code = 0
    /\ phase = "loop"
    /\ ended_by = "none"
    /\ snapshot_names = <<>>
    /\ session = 1
    /\ call = NoCall
    /\ loop = NoLoop

NextLoop == LoopIterate

LoopSpec == InitLoop /\ [][NextLoop]_vars

(***************************************************************************)
(* Sessions whose cards have different categories and names, and sessions  *)
(* whose cards have no icon.                                               *)
(***************************************************************************)
\* "VestX": a clean name that begins with another clean name
NameVestX == NameVest \o <<88>>

\* "V#2": a clean name with a hash sign
NameHash == <<86, Hashmark, 50>>

\* "A:B": a category with a colon
CatColon == <<65, Colon, 66>>

Categories == {CatArmor, CatColon}

Names == {NameVest, NameVestX, NameHash}

NameCapture ==
    \E category \in Categories, clean_name \in Names :
        ResolveCard(category, clean_name, 100, ImgA)

InitName ==
    /\ thumbs = <<>>
    /\ snapshots = <<>>
    /\ runs = 0
    /\ last = NoRun
    /\ prev = [apply |-> FALSE, threshold |-> 0]
    /\ collected_items = <<>>
    /\ clock = 3
    /\ log = <<>>
    /\ exit_code = 0
    /\ phase = "loop"
    /\ ended_by = "none"
    /\ snapshot_names = <<>>
    /\ session = 1
    /\ call = NoCall
    /\ loop = NoLoop

NextName == NameCapture \/ PressEsc

NameSpec == InitName /\ [][NextName]_vars

FallbackPrices == {100, 200, 300}

HashlessCapture ==
    \E price \in FallbackPrices, img \in {EmptyImage, ImgA} :
        ResolveCard(CatArmor, NameVest, price, img)

NextHashless == HashlessCapture

HashlessSpec == InitName /\ [][NextHashless]_vars

(***************************************************************************)
(* The helper functions called on their own.                               *)
(***************************************************************************)
\* np.clip(x, lo, hi)
Clip(x, lo, hi) == IF x < lo THEN lo ELSE IF x > hi THEN hi ELSE x

\* round(num / den) for num >= 0, den > 0: to the nearest, a tie to the even
Round(num, den) ==
    LET q == num \div den
        r == num % den
    IN IF 2 * r < den THEN q
       ELSE IF 2 * r > den THEN q + 1
       ELSE IF q % 2 = 0 THEN q ELSE q + 1

\* int(round(np.clip(h_vals.mean() * (255.0/180.0), 0, 255))), the mean
\* given in tenths of OpenCV's hue unit
HueByte(h_mean10) == Round(Clip(h_mean10 * 255, 0, 255 * 1800), 1800)

\* int(round(np.clip(s_vals.mean(), 0, 255))), the mean given in tenths
MeanByte(mean10) == Round(Clip(mean10, 0, 2550), 10)

\* the strings the distances are called on: short enough for their value to
\* be a number of the model
HexStrings ==
    {<<>>, <<0>>, <<10>>, <<10, 11>>, <<10, 12>>, <<1, 2, 3>>, <<15, 15, 15, 15>>,
     <<10, 11, NonHex>>, <<NonHex>>, <<10, NonHex>>, <<NonHex, 10>>,
     <<10, 11, 0, NonHex>>}

\* all hue bins, and two values outside them
HueBinValues == 0..(HueBins + 1)

HueMeans == {0, 113, 339, 1790}
SatMeans == {0, 640, 2550}
ValMeans == {0, 1280, 2550}
HashBits == {0, 3, 64}

\* the images compute_thumbnail_hash is called on
HelperImages ==
    {Image(a, d, HueByte(h), MeanByte(sa), MeanByte(v), (h \div 150) % HueBins, 1) :
        a \in HashBits, d \in HashBits, h \in HueMeans, sa \in SatMeans,
        v \in ValMeans} \cup {EmptyImage}

CallHamming ==
    \E a \in HexStrings, b \in HexStrings :
        /\ call' = [fn |-> "hamming_distance_hex", a |-> a, b |-> b,
                    ab |-> hamming_distance_hex(a, b),
                    ba |-> hamming_distance_hex(b, a),
                    cab |-> cleanup_hamming_distance_hex(a, b),
                    cba |-> cleanup_hamming_distance_hex(b, a)]
        /\ UNCHANGED <<thumbs, snapshots, reconcilerVars, captureVars, sessionVars, loopVars>>

CallHueBinDistance ==
    \E a \in HueBinValues, b \in HueBinValues :
        /\ call' = [fn |-> "hue_bin_distance", a |-> a, b |-> b,
                    ab |-> hue_bin_distance(a, b), ba |-> hue_bin_distance(b, a)]
        /\ UNCHANGED <<thumbs, snapshots, reconcilerVars, captureVars, sessionVars, loopVars>>

CallThumbnailHash ==
    \E img \in HelperImages :
        /\ call' = [fn |-> "compute_thumbnail_hash", img |-> img,
                    out |-> compute_thumbnail_hash(img),
                    again |-> compute_thumbnail_hash(img)]
        /\ UNCHANGED <<thumbs, snapshots, reconcilerVars, captureVars, sessionVars, loopVars>>

InitHelper ==
    /\ thumbs = <<>>
    /\ snapshots = <<>>
    /\ runs = 0
    /\ last = NoRun
    /\ prev = [apply |-> FALSE, threshold |-> 0]
    /\ collected_items = <<>>
    /\ clock = 3
    /\ log = <<>>
    /\ exit_code = 0
    /\ phase = "loop"
    /\ ended_by = "none"
    /\ snapshot_names = <<>>
    /\ session = 1
    /\ call = NoCall
    /\ loop = NoLoop

NextHelper == CallHamming \/ CallHueBinDistance \/ CallThumbnailHash

HelperSpec == InitHelper /\ [][NextHelper]_vars

(***************************************************************************)
(* Properties of the reconciler.                                           *)
(***************************************************************************)
Ran == runs >= 1 /\ Len(last.files) > 0

Members(group) == {group[i] : i \in 1..Len(group)}

OnDisk == {thumbs[i] : i \in 1..Len(thumbs)}

\* the file a group's members are mapped to
MappedTo(group) ==
    CHOOSE f \in Members(group) : f.stem = last.mapping[group[1].stem]

\* an item's reference, in either form, names a file mapped to another file
NamesDuplicate(stem, mapping) ==
    stem \in DOMAIN mapping /\ mapping[stem] # stem

PathNamesDuplicate(path, mapping) ==
    /\ path.pre \in {"thumbs/", "thumbs\\"}
    /\ NamesDuplicate(path.fname, mapping)

\* C1: a run that follows an apply run with the same threshold finds only
\* singleton groups: it maps no file to another, has nothing to delete and
\* changes no snapshot.
C1_IdempotentReconciliation ==
    (runs >= 2 /\ prev.apply /\ prev.threshold = last.threshold) =>
        /\ \A g \in 1..Len(last.groups) : Len(last.groups[g]) = 1
        /\ last.merged = 0
        /\ last.to_delete = {}
        /\ last.changed = 0

\* C2: after an apply run every item whose thumbHash or thumbPath named a
\* file mapped to another file names the canonical file, and a snapshot
\* with such an item is counted as changed.
C2_BothFormsRewritten ==
    (Ran /\ last.apply) =>
        /\ \A s \in 1..Len(last.snapsBefore) :
             last.snapsBefore[s].ok =>
               \A c \in 1..Len(last.snapsBefore[s].data.categories) :
                 \A k \in 1..Len(last.snapsBefore[s].data.categories[c].items) :
                   LET before == last.snapsBefore[s].data.categories[c].items[k]
                       after == snapshots[s].data.categories[c].items[k]
                   IN /\ NamesDuplicate(before.thumbHash, last.mapping) =>
                           after.thumbHash = last.mapping[before.thumbHash]
                      /\ PathNamesDuplicate(before.thumbPath, last.mapping) =>
                           after.thumbPath =
                               ThumbsPath("thumbs/", last.mapping[before.thumbPath.fname])
        /\ last.changed =
             Cardinality({s \in 1..Len(last.snapsBefore) :
                 /\ last.snapsBefore[s].ok
                 /\ \E c \in 1..Len(last.snapsBefore[s].data.categories) :
                      \E k \in 1..Len(last.snapsBefore[s].data.categories[c].items) :
                        LET before == last.snapsBefore[s].data.categories[c].items[k]
                        IN \/ NamesDuplicate(before.thumbHash, last.mapping)
                           \/ PathNamesDuplicate(before.thumbPath, last.mapping)})

\* C3: after an apply run, of every group with several members exactly the
\* canonical file is left, the files of singleton groups are all left, and
\* there are as many files as groups.
C3_OneFilePerGroup ==
    (Ran /\ last.apply) =>
        /\ \A g \in 1..Len(last.groups) :
             LET group == last.groups[g]
             IN Members(group) \cap OnDisk =
                    IF Len(group) > 1 THEN {MappedTo(group)} ELSE Members(group)
        /\ OnDisk \subseteq {last.thumbsBefore[i] : i \in 1..Len(last.thumbsBefore)}
        /\ Len(thumbs) = Len(last.groups)

C3_Witness ==
    /\ Ran /\ last.apply
    /\ \E g, h \in 1..Len(last.groups) :
         Len(last.groups[g]) > 1 /\ Len(last.groups[h]) = 1

\* C7: the canonical file of a group with several members has the oldest
\* modification time of the group, and among the members that tie on it, it
\* is the one whose name sorts first.
C7_CanonicalIsOldest ==
    Ran =>
        \A g \in 1..Len(last.groups) :
            Len(last.groups[g]) > 1 =>
                \A f \in Members(last.groups[g]) \ {MappedTo(last.groups[g])} :
                    LET canonical == MappedTo(last.groups[g])
                    IN \/ canonical.mtime < f.mtime
                       \/ /\ canonical.mtime = f.mtime
                          /\ NameLess(canonical.stem, f.stem, 1)

\* a group of three whose two oldest members tie, listed newest first
C7_Witness ==
    /\ Ran
    /\ \E g \in 1..Len(last.groups) :
         /\ Len(last.groups[g]) = 3
         /\ \E f \in Members(last.groups[g]) \ {MappedTo(last.groups[g])} :
              f.mtime = MappedTo(last.groups[g]).mtime
         /\ \E f \in Members(last.groups[g]) :
              f.mtime > MappedTo(last.groups[g]).mtime
         /\ last.groups[g][1].mtime > MappedTo(last.groups[g]).mtime

\* C8: a run without --apply leaves the thumbs directory and every snapshot
\* file as they were.
C8_DryRunChangesNothing ==
    (runs >= 1 /\ ~last.apply) =>
        /\ thumbs = last.thumbsBefore
        /\ snapshots = last.snapsBefore

\* a dry run that had duplicates to delete and snapshots to rewrite
C8_Witness ==
    /\ Ran /\ ~last.apply
    /\ last.to_delete # {}
    /\ last.changed > 0

\* C9: a run leaves the timestamp, the categories, the number and order of
\* the items and every item's itemName and price of every snapshot as they
\* were; a file that does not parse is left as it is.
C9_OnlyThumbnailReferencesChange ==
    runs >= 1 =>
        /\ Len(snapshots) = Len(last.snapsBefore)
        /\ \A s \in 1..Len(snapshots) :
             LET before == last.snapsBefore[s]
                 after == snapshots[s]
             IN /\ after.ok = before.ok
                /\ ~before.ok => after = before
                /\ before.ok =>
                     /\ after.data.timestamp = before.data.timestamp
                     /\ Len(after.data.categories) = Len(before.data.categories)
                     /\ \A c \in 1..Len(before.data.categories) :
                          LET bc == before.data.categories[c]
                              ac == after.data.categories[c]
                          IN /\ ac.cat = bc.cat
                             /\ Len(ac.items) = Len(bc.items)
                             /\ \A k \in 1..Len(bc.items) :
                                  /\ ac.items[k].itemName = bc.items[k].itemName
                                  /\ ac.items[k].price = bc.items[k].price

\* an apply run that rewrote a snapshot with several categories
C9_Witness ==
    /\ Ran /\ last.apply
    /\ \E s \in 1..Len(snapshots) :
         /\ snapshots[s] # last.snapsBefore[s]
         /\ Len(snapshots[s].data.categories) > 1

(***************************************************************************)
(* Properties of the resolver.                                             *)
(***************************************************************************)
\* Hamming distance of the average and gradient hashes: the first 32
\* characters, or the common prefix when one string is shorter
ShapeDistance(a, b) ==
    LET n == Min(32, Min(Len(a), Len(b)))
    IN PopXor(a, b, 1, n)

\* both strings are composite and their HSV suffixes, the last six
\* characters read as H, S, V bytes, differ by more than the tolerances in
\* hue or in saturation
HsvBeyond(a, b, hue_tol, sat_tol) ==
    /\ Len(a) >= CompositeLen /\ Len(b) >= CompositeLen
    /\ IsHex(Last6(a), 6) /\ IsHex(Last6(b), 6)
    /\ \/ Abs(HexByte(Last6(a), 1) - HexByte(Last6(b), 1)) > hue_tol
       \/ Abs(HexByte(Last6(a), 3) - HexByte(Last6(b), 3)) > sat_tol

\* the card reused the name of a file that was already stored
ReusedStored(o) == o.tier \in {"reuse", "visual"}

DifferentItems(o1, o2) ==
    /\ Len(o1.fresh) > 0 /\ Len(o2.fresh) > 0
    /\ \/ hamming_distance_hex(o1.fresh, o2.fresh) > KeyBits
       \/ hue_bin_distance(compute_color_signature(o1.img).h_bin,
                           compute_color_signature(o2.img).h_bin) > 1

\* C5: two cards of one session with the same category and clean name that
\* show different items never get the same identity key, whatever their
\* prices.
C5_KeysNotSharedByDifferentItems ==
    \A i, j \in 1..Len(log) :
        (i < j /\ log[i].prefix = log[j].prefix /\ DifferentItems(log[i], log[j]))
            => log[i].key # log[j].key

\* cards i and i+1 are the first two of their prefix in the session, both
\* with a fingerprint
FirstTwo(i) ==
    /\ i + 1 <= Len(log)
    /\ log[i].prefix = log[i + 1].prefix
    /\ log[i].ncand = 0
    /\ Len(log[i].chosen) > 0 /\ Len(log[i + 1].chosen) > 0

ChosenDistance(i) == hamming_distance_hex(log[i].chosen, log[i + 1].chosen)

BinDistance(i) ==
    hue_bin_distance(compute_color_signature(log[i].img).h_bin,
                     compute_color_signature(log[i + 1].img).h_bin)

SameKey(i) == log[i].key = log[i + 1].key

SecondKeyIsSuffixed(i) ==
    /\ log[i].key # log[i + 1].key
    /\ log[i + 1].key = log[i + 1].prefix \o <<Hashmark>> \o log[i + 1].chosen

C10_Step ==
    /\ Len(thumbs') >= Len(thumbs)
    /\ \A i \in 1..Len(thumbs) : thumbs'[i] = thumbs[i]
    /\ \A i, j \in 1..Len(thumbs') :
           thumbs'[i].stem = thumbs'[j].stem => i = j

C10_AppendOnly == [][C10_Step]_vars

\* a card took the name of a stored file whose content differs from the
\* card's icon, and another card stored a new file
C10_Witness ==
    /\ \E i \in 1..Len(log), k \in 1..Len(thumbs) :
         /\ ReusedStored(log[i])
         /\ thumbs[k].stem = log[i].chosen
         /\ thumbs[k].look # log[i].img.look
    /\ \E i \in 1..Len(log), k \in 1..Len(thumbs) :
         /\ log[i].tier = "new"
         /\ thumbs[k].stem = log[i].chosen
         /\ thumbs[k].look = log[i].img.look

(***************************************************************************)
(* Properties of the helper functions.                                     *)
(***************************************************************************)
\* every character is a hex digit, and there is one
ValidHex(s) == Len(s) > 0 /\ \A i \in 1..Len(s) : s[i] \in 0..15

\* the first n characters are hex digits
PrefixIsHex(s, n) == \A i \in 1..n : s[i] \in 0..15

\* the number the first n hex digits of s spell
RECURSIVE HexValue(_, _)
HexValue(s, n) == IF n = 0 THEN 0 ELSE 16 * HexValue(s, n - 1) + s[n]

\* the population count of x XOR y, two numbers of at most `bits` bits
XorPopCount(x, y, bits) ==
    Cardinality({i \in 0..(bits - 1) : Bit(x, i) # Bit(y, i)})

\* what the distance of the overlapping prefixes of a and b should be
PrefixDistance(a, b) ==
    LET n == Min(Len(a), Len(b))
    IN XorPopCount(HexValue(a, n), HexValue(b, n), 4 * n)

IsHammingCall == call.fn = "hamming_distance_hex"

\* C16: the distance of a valid hex string to itself is 0, and the distance
\* of a and b is the distance of b and a, None and 64 included, in the
\* collector's and in the reconciler's implementation.
C16_ReflexiveAndSymmetric ==
    IsHammingCall =>
        /\ call.ab = call.ba
        /\ call.cab = call.cba
        /\ (call.a = call.b /\ ValidHex(call.a)) => (call.ab = 0 /\ call.cab = 0)

\* two strings of different lengths at a distance that is a positive number
C16_Witness ==
    /\ IsHammingCall
    /\ Len(call.a) # Len(call.b)
    /\ call.ab > 0 /\ call.ab = call.ba
    /\ call.cab > 0 /\ call.cab = call.cba

C18_CircularDistance ==
    (call.fn = "hue_bin_distance" /\ call.a \in 0..11 /\ call.b \in 0..11) =>
        LET d == IF call.a >= call.b THEN call.a - call.b ELSE call.b - call.a
        IN /\ call.ab = (IF d <= 12 - d THEN d ELSE 12 - d)
           /\ call.ab = call.ba
           /\ call.ab \in 0..6
           /\ (call.ab = 0) <=> (call.a = call.b)
           /\ (call.a = 0 /\ call.b = 11) => call.ab = 1
           /\ (call.a = 0 /\ call.b = 6) => call.ab = 6

\* the distance of bins 0 and 11 was asked for
C18_Witness ==
    /\ call.fn = "hue_bin_distance"
    /\ call.a = 0 /\ call.b = 11 /\ call.ab = 1

ResolvedWithoutFingerprint ==
    /\ Len(log') = Len(log) + 1
    /\ log'[Len(log')].fresh = <<>>

\* the entries of the index before the step whose key starts with the prefix
PrefixEntries(prefix) ==
    SelectSeq(collected_items, LAMBDA e : StartsWith(e.key, prefix))

\* the card is in the index after the step, under its key
RecordedAfter(o) ==
    \E i \in 1..Len(collected_items') :
        /\ collected_items'[i].key = o.key
        /\ collected_items'[i].price = o.price
        /\ collected_items'[i].ocrName = NameVest

C15_ClaimedStep ==
    ResolvedWithoutFingerprint =>
        LET o == log'[Len(log')]
        IN /\ thumbs' = thumbs
           /\ o.key = o.prefix
           /\ RecordedAfter(o)

\* C15 as claimed: a card with an empty fingerprint writes no file and gets
\* the key category:cleanName without suffix in every state of the index,
\* and its name and price are recorded.
C15_BareKeyWithoutFingerprint == [][C15_ClaimedStep]_vars

C15_AmendedStep ==
    ResolvedWithoutFingerprint =>
        LET o == log'[Len(log')]
            cands == PrefixEntries(o.prefix)
            same_price == SelectSeq(cands, LAMBDA e : e.price = o.price)
        IN /\ thumbs' = thumbs
           /\ IF Len(cands) = 0 THEN o.key = o.prefix
              ELSE IF Len(same_price) > 0 THEN o.key = same_price[1].key
              ELSE /\ Len(o.key) = Len(o.prefix) + 7
                   /\ SubSeq(o.key, 1, Len(o.prefix) + 1) = o.prefix \o <<Hashmark>>
                   /\ HexValue(SubSeq(o.key, Len(o.prefix) + 2, Len(o.key)), 6)
                          = clock' % (2 ^ 24)
           /\ o.is_new => RecordedAfter(o)

\* C15 as amended: such a card writes no file; its key is category:cleanName
\* when the index has no key with that prefix, else the first key with that
\* prefix recorded at the card's price, else category:cleanName, '#' and the
\* low 24 bits of the time in six hex digits; a card whose key is new is
\* recorded with its name and price.
C15_KeyWithoutFingerprint == [][C15_AmendedStep]_vars

\* a card without fingerprint found the prefix taken at another price and
\* was recorded under a key with the time suffix
C15_Witness ==
    \E i \in 1..Len(log) :
        /\ log[i].fresh = <<>>
        /\ log[i].ncand > 0
        /\ log[i].is_new
        /\ Len(log[i].key) = Len(log[i].prefix) + 7
        /\ \E k \in 1..Len(collected_items) : collected_items[k].key = log[i].key

(***************************************************************************)
(* Properties of the resolver when a comparison or the directory fails.    *)
(***************************************************************************)
\* the HSV suffixes of both strings are compared and can be parsed
HsvComparable(a, b) ==
    (Len(a) >= CompositeLen /\ Len(b) >= CompositeLen)
        => (PrefixIsHex(Last6(a), 6) /\ PrefixIsHex(Last6(b), 6))

\* C13: a card reuses a stored stem only when its distance to the fresh
\* fingerprint is a number and, both being composite, the HSV suffix of the
\* stem can be parsed; a comparison that cannot be evaluated never merges.
C13_FailSoftTowardNew ==
    \A i \in 1..Len(log) :
        (ReusedStored(log[i]) /\ log[i].chosen # log[i].fresh) =>
            /\ hamming_distance_hex(log[i].fresh, log[i].chosen) # NoneDist
            /\ HsvComparable(log[i].fresh, log[i].chosen)

\* C14: a card during which the listing or the write of the thumbs directory
\* failed is not recorded; the session ends as 'unavailable'.
C14_UnavailablePropagates ==
    \A i \in 1..Len(log) :
        (log[i].listdir_failed \/ log[i].imwrite_failed) => phase = "unavailable"

(***************************************************************************)
(* Properties of the end of a session.                                     *)
(***************************************************************************)
\* the step ends the session with the given key
EndsBy(key) == phase = "loop" /\ phase' = "exited" /\ ended_by' = key

\* every snapshot file is after the step what it was before
SnapshotsKept ==
    /\ Len(snapshots') >= Len(snapshots)
    /\ \A i \in 1..Len(snapshots) :
          /\ snapshots'[i] = snapshots[i]
          /\ snapshot_names'[i] = snapshot_names[i]

C11_Step ==
    /\ SnapshotsKept
    /\ Len(snapshots') <= Len(snapshots) + 1
    /\ Len(snapshots') > Len(snapshots) => (phase = "loop" /\ phase' = "exited")

\* C11: a session writes its snapshot once, when it ends, and no step of
\* the capture pipeline changes a snapshot file that is already written.
C11_WrittenOnceNeverMutated == [][C11_Step]_vars

C12_Step ==
    /\ EndsBy("q") => (snapshots' = snapshots /\ snapshot_names' = snapshot_names)
    /\ (EndsBy("esc") /\ Len(collected_items) > 0) =>
          \E i \in 1..Len(snapshots') :
              /\ snapshot_names'[i] = SnapshotName(clock)
              /\ snapshots'[i].ok
              /\ snapshots'[i].data.timestamp = clock
              /\ \A k \in 1..Len(collected_items) :
                    \E c \in 1..Len(snapshots'[i].data.categories) :
                    \E e \in 1..Len(snapshots'[i].data.categories[c].items) :
                        /\ snapshots'[i].data.categories[c].cat
                               = collected_items[k].category
                        /\ snapshots'[i].data.categories[c].items[e].price
                               = collected_items[k].price
                        /\ snapshots'[i].data.categories[c].items[e].itemName
                               = NameVest

\* C12: ESC ends the session and saves the snapshot of all collected items;
\* Q ends it and writes no snapshot file, whatever was collected.
C12_QuitDoesNotSave == [][C12_Step]_vars

(***************************************************************************)
(* Properties of the reconciler on a file system that fails.               *)
(***************************************************************************)
\* C20: every run of the batch tool ends with exit code 0, also when a
\* snapshot cannot be parsed or written or the stat or the deletion of a
\* listed file fails.
C20_ExitCodeZero == exit_code = 0

(***************************************************************************)
(* Properties of the capture loop.                                         *)
(***************************************************************************)
\* C26: a capture pass answers a click made while capture mode was active;
\* a click made while the session was paused causes no pass, neither at once
\* nor when SPACE resumes.
C26_NoPassAfterPausedClick == loop.pass_after # "paused"

(***************************************************************************)
(* Properties of the two passes over the stored files.                     *)
(***************************************************************************)
\* a step that resolved one more card
Resolved == Len(log') = Len(log) + 1

\* the bits in which two strings differ over their common prefix, 65 when
\* that prefix is not hex
BitsApart(a, b) ==
    LET n == Min(Len(a), Len(b))
    IN IF n > 0 /\ IsHex(a, n) /\ IsHex(b, n) THEN PopXor(a, b, 1, n) ELSE 65

\* the stems the filename-reuse tier accepts for a fresh fingerprint
TightMatches(fresh, dir) ==
    {i \in 1..Len(dir) :
        /\ BitsApart(fresh, dir[i].stem) <= ReuseBits
        /\ ~HsvBeyond(fresh, dir[i].stem, ReuseHueTol, ReuseSatTol)}

\* the stems the visual tier considers for a fresh fingerprint
LooseMatches(fresh, dir) ==
    {i \in 1..Len(dir) :
        /\ BitsApart(fresh, dir[i].stem) <= VisualBits
        /\ ~HsvBeyond(fresh, dir[i].stem, VisualHueTol, VisualSatTol)}

Least(S) == CHOOSE i \in S : \A j \in S : i <= j

\* C21: the first stem in listing order within 4 bits and within 15 in hue
\* and 40 in saturation is the chosen hash of the card.
C21_Step ==
    (Resolved /\ Len(log'[Len(log')].fresh) > 0)
        => LET o == log'[Len(log')]
               matches == TightMatches(o.fresh, thumbs)
           IN matches # {} => o.chosen = thumbs[Least(matches)].stem

C22_Step ==
    ( /\ Resolved
      /\ Len(log'[Len(log')].fresh) > 0
      /\ TightMatches(log'[Len(log')].fresh, thumbs) = {} )
        => LET o == log'[Len(log')]
               cands == LooseMatches(o.fresh, thumbs)
               looked == {i \in cands :
                            Cardinality({k \in cands : k <= i}) <= MaxVisualCandidates}
               similar == {i \in looked :
                             are_images_similar(o.img.look, thumbs[i].look)}
           IN IF similar # {}
              THEN /\ o.chosen = thumbs[Least(similar)].stem
                   /\ o.tier = "visual"
                   /\ thumbs' = thumbs
              ELSE /\ o.chosen = o.fresh
                   /\ o.tier = "new"

PlaceOf(f) == CHOOSE k \in 1..Len(last.files) : last.files[k] = f

\* two stems are within the threshold of the last run
Within(a, b) == BitsApart(a, b) <= last.threshold

\* C23: the groups partition the name-sorted list; a file is in the first
\* group, in order of formation, whose representative is within threshold of
\* it, or is the representative of a new group; the members that joined a
\* group are within threshold of its representative and representatives are
\* more than threshold apart.
C23_GreedyGrouping ==
    Ran =>
        LET files == last.files
            groups == last.groups
        IN /\ \A k, l \in 1..Len(files) :
                  k < l => NameLess(files[k].stem, files[l].stem, 1)
           /\ {files[k] : k \in 1..Len(files)}
                  = {last.thumbsBefore[k] : k \in 1..Len(last.thumbsBefore)}
           /\ \A k \in 1..Len(files) :
                  Cardinality({p \in {<<g, i>> : g \in 1..Len(groups), i \in 1..MaxFiles + 1} :
                                  /\ p[2] <= Len(groups[p[1]])
                                  /\ groups[p[1]][p[2]] = files[k]}) = 1
           /\ \A g \in 1..Len(groups) :
                  /\ Len(groups[g]) >= 1
                  /\ \A i \in 1..Len(groups[g]) :
                         /\ groups[g][i] \in {files[k] : k \in 1..Len(files)}
                         /\ i > 1 => Within(groups[g][i].stem, groups[g][1].stem)
                         /\ \A h \in 1..(g - 1) :
                                ~Within(groups[g][i].stem, groups[h][1].stem)
                         /\ \A j \in 1..(i - 1) :
                                PlaceOf(groups[g][j]) < PlaceOf(groups[g][i])
                  /\ \A h \in 1..(g - 1) :
                         PlaceOf(groups[h][1]) < PlaceOf(groups[g][1])
           /\ \A g, h \in 1..Len(groups) :
                  g # h => ~Within(groups[g][1].stem, groups[h][1].stem)

\* a run at threshold 8 on P0, P8 and P9: P8 joined P0, and P9, one bit from
\* P8 and nine from P0, formed a group of its own
C23_Witness ==
    /\ Ran
    /\ last.threshold = 8
    /\ Len(last.groups) = 2
    /\ Len(last.groups[1]) = 2
    /\ last.groups[1][1].stem = P0 /\ last.groups[1][2].stem = P8
    /\ last.groups[2][1].stem = P9

(***************************************************************************)
(* Properties of the session index.                                        *)
(***************************************************************************)
\* C24: the entry of a key holds the price, the fingerprint and the colour
\* signature of the last observation that resolved to that key.
C24_IndexHoldsLastSeen ==
    \A i \in 1..Len(log) :
        (\A j \in (i + 1)..Len(log) : log[j].key # log[i].key)
            => \E n \in 1..Len(collected_items) :
                   /\ collected_items[n].key = log[i].key
                   /\ collected_items[n].price = log[i].price
                   /\ collected_items[n].thumbHash = log[i].chosen
                   /\ collected_items[n].colorSig = compute_color_signature(log[i].img)

(***************************************************************************)
(* Properties of the references left by the reconciler.                    *)
(***************************************************************************)
\* C25: after an apply run, a reference of a snapshot, thumbHash or
\* thumbPath, that named a file of the directory before the run names a file
\* of the directory after it.
C25_NoDanglingReferences ==
    (Ran /\ last.apply) =>
        \A s \in 1..Len(last.snapsBefore) :
            last.snapsBefore[s].ok =>
                \A c \in 1..Len(last.snapsBefore[s].data.categories) :
                    \A k \in 1..Len(last.snapsBefore[s].data.categories[c].items) :
                        LET before == last.snapsBefore[s].data.categories[c].items[k]
                            after == snapshots[s].data.categories[c].items[k]
                        IN /\ before.thumbHash \in Stems(last.thumbsBefore)
                                => after.thumbHash \in Stems(thumbs)
                           /\ ( /\ before.thumbPath.pre \in {"thumbs/", "thumbs\\"}
                                /\ before.thumbPath.fname \in Stems(last.thumbsBefore) )
                                => after.thumbPath.fname \in Stems(thumbs)

(***************************************************************************)
(* Properties of the reconciler on stems of different colours.             *)
(***************************************************************************)
\* C28: a run at the default threshold puts no two 38-character stems whose
\* HSV suffixes differ by more than 15 in hue or 40 in saturation in one
\* group; neither is mapped to the other or deleted in favour of it.
C28_ColoursKeptApart ==
    (Ran /\ last.threshold = DefaultThreshold) =>
        \A g \in 1..Len(last.groups) :
            \A f1, f2 \in Members(last.groups[g]) :
                (Len(f1.stem) = 38 /\ Len(f2.stem) = 38)
                    => ~HsvBeyond(f1.stem, f2.stem, ReuseHueTol, ReuseSatTol)

(***************************************************************************)
(* Properties of the identity keys and of the saved record.                *)
(***************************************************************************)
\* the entry of the session index under a key
EntryOf(key) ==
    collected_items[CHOOSE n \in 1..Len(collected_items) :
                        collected_items[n].key = key]

\* C27: the key of an observation is the observation's own
\* category:cleanName, alone or followed by '#' and a suffix, and the entry
\* under that key was built from the same category and clean name.
C27_KeyOfTheSameName ==
    \A i \in 1..Len(log) :
        LET key == log[i].key
            prefix == log[i].prefix
        IN /\ StartsWith(key, prefix)
           /\ Len(key) > Len(prefix) => key[Len(prefix) + 1] = Hashmark
           /\ BasePrefix(EntryOf(key).category, EntryOf(key).ocrName) = prefix

\* an observation without fingerprint whose price is that of no entry
\* recorded before it under its prefix
HashlessAtNewPrice(i) ==
    /\ log[i].fresh = <<>>
    /\ \A k \in 1..(i - 1) :
           (log[k].is_new /\ log[k].prefix = log[i].prefix)
               => log[k].price # log[i].price

\* C29: two observations without fingerprint under one prefix, each at a
\* price that no recorded entry of the prefix has, get two keys and are both
\* recorded, whatever the times.
C29_FallbackSuffixKeepsApart ==
    \A i, j \in 1..Len(log) :
        ( /\ i < j
          /\ log[i].prefix = log[j].prefix
          /\ HashlessAtNewPrice(i)
          /\ HashlessAtNewPrice(j) )
            => /\ log[i].key # log[j].key
               /\ log[i].is_new
               /\ log[j].is_new

\* the items a saved record should hold under a category: one per entry of
\* the session index built from that category, with the clean name it was
\* built from
ItemsOf(category) ==
    LET built == SelectSeq(collected_items, LAMBDA e : e.category = category)
    IN [n \in 1..Len(built) |->
           Item(built[n].ocrName, built[n].price, built[n].thumbHash, NoPath)]

\* C30: the snapshot written at the end of a session holds, under each
\* category, one item per key built from that category, named by the clean
\* name, with the recorded price and the recorded fingerprint.
C30_RecordRoundTrip ==
    (phase = "exited" /\ Len(collected_items) > 0) =>
        LET saved == json_loads(snapshots[Len(snapshots)]).categories
        IN /\ {saved[c].cat : c \in 1..Len(saved)}
                  = {collected_items[n].category : n \in 1..Len(collected_items)}
           /\ \A c \in 1..Len(saved) : saved[c].items = ItemsOf(saved[c].cat)

====
